---- MODULE Spec2Model ----
(***************************************************************************)
(* Model of the Dog API backend (src/app.py): a Flask application whose    *)
(* handlers delegate persistence to an external record store (the "dogs"   *)
(* table).  One request is in flight at a time: it is received, handled    *)
(* by the handler of its route (one action per handler, the whole handler) *)
(* and its response is delivered.                                          *)
(*                                                                         *)
(* JSON values that may be null are modelled as sequences of length at     *)
(* most one: Null is the empty sequence and Some(v) the one-element        *)
(* sequence.  A key that is absent from a JSON object is absent from the   *)
(* DOMAIN of the function modelling the object.                            *)
(***************************************************************************)
EXTENDS Integers, Sequences, FiniteSets, TLC

VARIABLES
    dogs,        \* the record store's "dogs" table: id -> attributes
    loggedIn,    \* history: an access token has been issued by /admin/login
    request,     \* the request in flight, NoRequest when idle
    response,    \* the response of the request in flight, NoResponse before
    storeCalls   \* the calls made to the record store while handling request

vars == <<dogs, loggedIn, request, response, storeCalls>>

----------------------------------------------------------------------------
(* Bounds *)

MaxId == 2          \* ids of the small store of Spec are 1..MaxId
MaxPage == 3        \* page numbers requested are 1..MaxPage
MaxStatDogs == 7    \* record count of the stores of SpecStats
MaxPageDogs == 45   \* record count of the stores of SpecPage

----------------------------------------------------------------------------
(* JSON values *)

Null == <<>>
Some(v) == <<v>>

\* dict.get(key, default): the default only when the key is absent
Get(d, k, default) == IF k \in DOMAIN d THEN d[k] ELSE default

\* Python truthiness of a JSON string-or-null and of a JSON number-or-null
TruthyStr(x) == x # Null /\ x[1] # ""
TruthyNum(x) == x # Null /\ x[1] # 0

EmptyObject == [k \in {} |-> Null]

----------------------------------------------------------------------------
(* IEEE-754 binary64, the type of Python's int / int: a positive value is  *)
(* 1.b2...b53 * 2^exp with mant = <<1, b2, ..., b53>>; zero has mant = <<>>*)

MantBits == 53

FloatZero == [mant |-> <<>>, exp |-> 0]

RECURSIVE Normalise(_, _, _)
\* scale a / b by powers of two into [1, 2), counting the exponent
Normalise(a, b, e) ==
    IF a >= 2 * b THEN Normalise(a, 2 * b, e + 1)
    ELSE IF a < b THEN Normalise(2 * a, b, e - 1)
    ELSE [a |-> a, b |-> b, e |-> e]

RECURSIVE DivBits(_, _, _, _)
\* k further quotient bits of r / b (r < b) by long division
DivBits(r, b, k, acc) ==
    IF k = 0 THEN [bits |-> acc, rem |-> r]
    ELSE IF 2 * r >= b THEN DivBits(2 * r - b, b, k - 1, Append(acc, 1))
    ELSE DivBits(2 * r, b, k - 1, Append(acc, 0))

RECURSIVE Increment(_, _)
\* add one unit in the last place to bits[1..i]; a carry out of the top
\* leaves all zeros, reported by carry = 1
Increment(bits, i) ==
    IF i = 0 THEN [bits |-> bits, carry |-> 1]
    ELSE IF bits[i] = 0 THEN [bits |-> [bits EXCEPT ![i] = 1], carry |-> 0]
    ELSE Increment([bits EXCEPT ![i] = 0], i - 1)

\* round to nearest, ties to even: up says the discarded part exceeds half
\* a unit, tie that it is exactly half
RoundFloat(bits, e, up, tie) ==
    IF up \/ (tie /\ bits[MantBits] = 1)
    THEN LET inc == Increment(bits, MantBits)
         IN  IF inc.carry = 1
             THEN [mant |-> [i \in 1..MantBits |-> IF i = 1 THEN 1 ELSE 0],
                   exp |-> e + 1]
             ELSE [mant |-> inc.bits, exp |-> e]
    ELSE [mant |-> bits, exp |-> e]

RECURSIVE IntBits(_)
\* binary digits of m > 0, most significant first
IntBits(m) == IF m = 0 THEN <<>> ELSE Append(IntBits(m \div 2), m % 2)

\* round an exact positive binary integer (digits, most significant first)
\* scaled by 2^scale to a float
FloatOfBits(digits, scale) ==
    LET len == Len(digits)
        e == scale + len - 1
    IN  IF len <= MantBits
        THEN [mant |-> [i \in 1..MantBits |-> IF i <= len THEN digits[i] ELSE 0],
              exp |-> e]
        ELSE LET kept == SubSeq(digits, 1, MantBits)
                 guard == digits[MantBits + 1]
                 sticky == \E i \in (MantBits + 2)..len : digits[i] = 1
             IN  RoundFloat(kept, e, guard = 1 /\ sticky, guard = 1 /\ ~sticky)

\* float(m) for an integer m >= 0
FloatOfInt(m) == IF m = 0 THEN FloatZero ELSE FloatOfBits(IntBits(m), 0)

\* the quotient as floor division (//) would give it
FloatDivFloor(m, n) == FloatOfInt(m \div n)

\* m / n for integers m >= 0, n > 0, correctly rounded
FloatDiv(m, n) ==
    IF m = 0 THEN FloatZero
    ELSE LET s == Normalise(m, n, 0)
             q == DivBits(s.a - s.b, s.b, MantBits - 1, <<1>>)
         IN  RoundFloat(q.bits, s.e, 2 * q.rem > s.b, 2 * q.rem = s.b)

RECURSIVE MulBits(_, _, _, _)
\* digits[1..i] * n + carry, as binary digits, most significant first
MulBits(digits, n, i, carry) ==
    IF i = 0 THEN IntBits(carry)
    ELSE IF (digits[i] * n + carry) % 2 = 1
    THEN Append(MulBits(digits, n, i - 1, (digits[i] * n + carry) \div 2), 1)
    ELSE Append(MulBits(digits, n, i - 1, (digits[i] * n + carry) \div 2), 0)

\* f * n for a float f and an integer n >= 0, correctly rounded
FloatMulInt(f, n) ==
    IF f = FloatZero \/ n = 0 THEN FloatZero
    ELSE FloatOfBits(MulBits(f.mant, n, MantBits, 0), f.exp - (MantBits - 1))

\* f <= g for non-negative floats
FloatLeq(f, g) ==
    IF f = FloatZero THEN TRUE
    ELSE IF g = FloatZero THEN FALSE
    ELSE IF f.exp # g.exp THEN f.exp < g.exp
    ELSE \/ f.mant = g.mant
         \/ \E i \in 1..MantBits :
               /\ f.mant[i] < g.mant[i]
               /\ \A j \in 1..(i - 1) : f.mant[j] = g.mant[j]

----------------------------------------------------------------------------
(* The record store: the external "dogs" table reached through the         *)
(* supabase client.  A row is a JSON object with the keys of Columns.      *)

Columns == {"id", "name", "image", "breed", "price"}

NoDogs == [i \in {} |-> Null]

\* the row of id i as select("*") returns it
Row(store, i) ==
    [c \in Columns |-> IF c = "id" THEN Some(i) ELSE store[i][c]]

Dog(name, image, breed, price) ==
    [name |-> name, image |-> image, breed |-> breed, price |-> price]

RECURSIVE Perms(_)
\* the sequences that list every element of S once
Perms(S) ==
    IF S = {} THEN {<<>>}
    ELSE UNION {{<<x>> \o p : p \in Perms(S \ {x})} : x \in S}

\* the elements of a set of integers in ascending order
Ascending(S) ==
    [i \in 1..Cardinality(S) |->
        CHOOSE x \in S : Cardinality({y \in S : y < x}) = i - 1]

Min(a, b) == IF a <= b THEN a ELSE b

\* a query as the builder calls of get_dogs leave it: in_, gte and lte are
\* Null when the filter was not added
Matches(row, query) ==
    /\ query.in_ = Null
         \/ (row["breed"] # Null /\ row["breed"][1] \in query.in_[1])
    /\ query.gte = Null
         \/ (row["price"] # Null /\ row["price"][1] >= query.gte[1])
    /\ query.lte = Null
         \/ (row["price"] # Null /\ row["price"][1] <= query.lte[1])

\* .order("id").range(from, to).execute(): rows from..to (0-based,
\* inclusive) of the matching rows in ascending id order
Execute(store, query) ==
    LET ids == Ascending({i \in DOMAIN store : Matches(Row(store, i), query)})
        window == SubSeq(ids, query.range[1] + 1,
                         Min(query.range[2] + 1, Len(ids)))
    IN  [k \in 1..Len(window) |-> Row(store, window[k])]

\* .insert(dog).execute() with the id the store assigns
Insert(store, id, dog) ==
    [i \in DOMAIN store \cup {id} |-> IF i = id THEN dog ELSE store[i]]

\* .update(data).eq("id", id).execute()
Update(store, id, data) ==
    [i \in DOMAIN store |->
        IF i = id
        THEN [c \in DOMAIN store[i] |->
                 IF c \in DOMAIN data THEN data[c] ELSE store[i][c]]
        ELSE store[i]]

\* .delete().eq("id", id).execute()
Delete(store, id) == [i \in DOMAIN store \ {id} |-> store[i]]

\* the rows an eq("id", id) filter selects
RowsOf(store, id) ==
    IF id \in DOMAIN store THEN <<Row(store, id)>> ELSE <<>>

----------------------------------------------------------------------------
(* Responses *)

NoRequest == [route |-> "none"]
NoResponse == [status |-> 0]

Json(status, body) == [status |-> status, body |-> body]

\* an except clause that swallows the failure
OnExceptionSwallowed(message) == Json(200, [message |-> "ok"])

\* except Exception as e: return jsonify({"error": str(e)}), 500
OnException(message) == Json(500, [error |-> message])

StoreError == "store error"

----------------------------------------------------------------------------
(* GET /dashboard *)

RECURSIVE Aggregate(_, _, _, _)
\* the loop over dogs[i..]: breeds counts the breeds seen, total_value is
\* the running sum; raised when a price of None is added to the sum
Aggregate(rows, i, breeds, total_value) ==
    IF i > Len(rows)
    THEN [raised |-> FALSE, breeds |-> breeds, total_value |-> total_value]
    ELSE LET dog == rows[i]
             breed == Get(dog, "breed", Null)
             counted == [b \in DOMAIN breeds \cup {breed} |->
                            IF b \in DOMAIN breeds
                            THEN IF b = breed THEN breeds[b] + 1 ELSE breeds[b]
                            ELSE 1]
             price == Get(dog, "price", Some(0))
         IN  IF price = Null
             THEN [raised |-> TRUE, breeds |-> counted,
                   total_value |-> total_value]
             ELSE Aggregate(rows, i + 1, counted, total_value + price[1])

NoBreeds == [b \in {} |-> 0]

\* the statistics of an empty store with the average left out
empty_stats_without_average ==
    [total_dogs |-> 0,
     unique_breeds |-> 0,
     breed_distribution |-> NoBreeds,
     total_inventory_value |-> 0]

\* the statistics of the "if not dogs" branch
empty_stats ==
    [total_dogs |-> 0,
     unique_breeds |-> 0,
     breed_distribution |-> NoBreeds,
     total_inventory_value |-> 0,
     average_price |-> FloatZero]

\* the handler, given the outcome of the select: fetch.raised says the
\* store call failed, fetch.data is the list of rows it returned
dashboard(fetch) ==
    IF fetch.raised THEN OnException(StoreError)
    ELSE LET rows == fetch.data
         IN  IF rows = <<>>
             THEN Json(200, [dogs |-> rows, statistics |-> empty_stats])
             ELSE LET agg == Aggregate(rows, 1, NoBreeds, 0)
                  IN  IF agg.raised THEN OnException("TypeError")
                      ELSE Json(200, [dogs |-> rows,
                                      statistics |->
                                         [total_dogs |-> Len(rows),
                                          unique_breeds |->
                                             Cardinality(DOMAIN agg.breeds),
                                          breed_distribution |-> agg.breeds,
                                          total_inventory_value |->
                                             agg.total_value,
                                          average_price |->
                                             IF rows # <<>>
                                             THEN FloatDiv(agg.total_value,
                                                           Len(rows))
                                             ELSE FloatZero]])

ReceiveDashboard ==
    /\ request = NoRequest
    /\ request' = [route |-> "dashboard"]
    /\ UNCHANGED <<dogs, loggedIn, response, storeCalls>>

\* select("*") has no order clause: the store returns the rows in any order
Dashboard ==
    /\ request.route = "dashboard"
    /\ response = NoResponse
    /\ \E raised \in BOOLEAN, order \in Perms(DOMAIN dogs) :
          LET data == [k \in 1..Len(order) |-> Row(dogs, order[k])]
          IN  /\ storeCalls' = <<[op |-> "select", raised |-> raised]>>
              /\ response' = dashboard([raised |-> raised,
                                        data |-> IF raised THEN <<>> ELSE data])
    /\ UNCHANGED <<dogs, loggedIn, request>>

\* the response is sent and the request is over
Deliver ==
    /\ response # NoResponse
    /\ request' = NoRequest
    /\ response' = NoResponse
    /\ storeCalls' = <<>>
    /\ UNCHANGED <<dogs, loggedIn>>

----------------------------------------------------------------------------
(* GET /dogs *)

page_size == 20

\* the query parameters a client sends: page, min_price and max_price are
\* Null when absent, breed is the set of the repeated breed parameter
PageArgs == {Null} \cup {Some(p) : p \in 1..MaxPage}
BreedArgs == {{}, {"Lab"}, {"Husky"}}
MinPriceArgs == {Null, Some(0), Some(100)}
MaxPriceArgs == {Null, Some(0)}

\* the query with the window starting one page too far
get_dogs_query_next_page(args) ==
    LET page == IF args.page = Null THEN 1 ELSE args.page[1]
        offset == page * page_size
    IN  [in_ |-> IF args.breed # {} THEN Some(args.breed) ELSE Null,
         gte |-> IF args.min_price # Null THEN args.min_price ELSE Null,
         lte |-> IF args.max_price # Null THEN args.max_price ELSE Null,
         range |-> <<offset, offset + page_size - 1>>]

\* the query with "if min_price:" for "if min_price is not None:"
get_dogs_query_truthy(args) ==
    LET page == IF args.page = Null THEN 1 ELSE args.page[1]
        offset == (page - 1) * page_size
    IN  [in_ |-> IF args.breed # {} THEN Some(args.breed) ELSE Null,
         gte |-> IF TruthyNum(args.min_price) THEN args.min_price ELSE Null,
         lte |-> IF TruthyNum(args.max_price) THEN args.max_price ELSE Null,
         range |-> <<offset, offset + page_size - 1>>]

\* the query built from the arguments
get_dogs_query(args) ==
    LET page == IF args.page = Null THEN 1 ELSE args.page[1]
        offset == (page - 1) * page_size
    IN  [in_ |-> IF args.breed # {} THEN Some(args.breed) ELSE Null,
         gte |-> IF args.min_price # Null THEN args.min_price ELSE Null,
         lte |-> IF args.max_price # Null THEN args.max_price ELSE Null,
         range |-> <<offset, offset + page_size - 1>>]

\* the handler, given the outcome of executing its query
get_dogs(args, fetch) ==
    IF fetch.raised THEN OnException(StoreError)
    ELSE Json(200, [page |-> IF args.page = Null THEN 1 ELSE args.page[1],
                    dogs |-> fetch.data])

ReceiveDogs ==
    /\ request = NoRequest
    /\ \E page \in PageArgs, breed \in BreedArgs,
          min_price \in MinPriceArgs, max_price \in MaxPriceArgs :
          request' = [route |-> "dogs",
                      args |-> [page |-> page, breed |-> breed,
                                min_price |-> min_price,
                                max_price |-> max_price]]
    /\ UNCHANGED <<dogs, loggedIn, response, storeCalls>>

GetDogs ==
    /\ request.route = "dogs"
    /\ response = NoResponse
    /\ \E raised \in BOOLEAN :
          LET query == get_dogs_query(request.args)
          IN  /\ storeCalls' = <<[op |-> "select", raised |-> raised,
                                  query |-> query]>>
              /\ response' = get_dogs(request.args,
                                [raised |-> raised,
                                 data |-> IF raised THEN <<>>
                                          ELSE Execute(dogs, query)])
    /\ UNCHANGED <<dogs, loggedIn, request>>

----------------------------------------------------------------------------
(* POST /admin/login *)

\* the configuration read from the environment, at its defaults
ADMIN_USERNAME == "admin"
ADMIN_PASSWORD == "password"
ADMIN_TOKEN == "dummy_admin_token"

Usernames == {Some(ADMIN_USERNAME), Some("guest")}
Passwords == {Some(ADMIN_PASSWORD), Some("letmein")}

\* a JSON object holding the keys of K with the values of full
Restrict(full, K) == [k \in K \cap DOMAIN full |-> full[k]]

\* the JSON objects with some of the keys username and password
LoginBodies ==
    {Restrict([username |-> u, password |-> p], K) :
        u \in Usernames, p \in Passwords,
        K \in SUBSET {"username", "password"}}

\* the login with "or" for "and"
admin_login_either(data) ==
    LET username == Get(data, "username", Null)
        password == Get(data, "password", Null)
    IN  IF username = Some(ADMIN_USERNAME) \/ password = Some(ADMIN_PASSWORD)
        THEN Json(200, [access_token |-> ADMIN_TOKEN,
                        message |-> "Login successful"])
        ELSE Json(403, [error |-> "Invalid credentials"])

admin_login(data) ==
    LET username == Get(data, "username", Null)
        password == Get(data, "password", Null)
    IN  IF username = Some(ADMIN_USERNAME) /\ password = Some(ADMIN_PASSWORD)
        THEN Json(200, [access_token |-> ADMIN_TOKEN,
                        message |-> "Login successful"])
        ELSE Json(403, [error |-> "Invalid credentials"])

ReceiveLogin ==
    /\ request = NoRequest
    /\ \E data \in LoginBodies :
          request' = [route |-> "login", json |-> data]
    /\ UNCHANGED <<dogs, loggedIn, response, storeCalls>>

AdminLogin ==
    /\ request.route = "login"
    /\ response = NoResponse
    /\ response' = admin_login(request.json)
    /\ loggedIn' = (loggedIn \/ response'.status = 200)
    /\ storeCalls' = <<>>
    /\ UNCHANGED <<dogs, request>>

----------------------------------------------------------------------------
(* POST, PUT, DELETE /admin *)

UpdatableFields == {"name", "image", "breed", "price"}

\* the values a client sends under each key of a JSON body
FullBodies ==
    [id : {Some(1), Some(MaxId)}, name : {Some("Rex")}, image : {Some("rex.png")},
     breed : {Some("Poodle")}, price : {Some(0), Some(100), Null},
     color : {Some("brown")}]

\* the JSON objects with some of the keys of FullBodies
Bodies ==
    {Restrict(full, K) :
        full \in FullBodies,
        K \in SUBSET {"id", "name", "image", "breed", "price", "color"}}

\* the bearer token a client may attach; no handler reads it
Tokens == {Null, Some(ADMIN_TOKEN)}

AdminRequests ==
    {[route |-> "admin", method |-> m, is_json |-> TRUE, json |-> b,
      args |-> EmptyObject, token |-> t] :
        m \in {"POST", "PUT"}, b \in Bodies, t \in Tokens}
    \cup
    {[route |-> "admin", method |-> "DELETE", is_json |-> TRUE, json |-> b,
      args |-> EmptyObject, token |-> t] :
        b \in {EmptyObject, [id |-> Some(1)], [id |-> Some(MaxId)]},
        t \in Tokens}
    \cup
    {[route |-> "admin", method |-> m, is_json |-> FALSE,
      json |-> EmptyObject, args |-> a, token |-> t] :
        m \in {"POST", "PUT", "DELETE"},
        a \in {EmptyObject, [id |-> Some(1)]}, t \in Tokens}

\* supabase.table("dogs").insert({...}).execute() of add_dogs, whose except
\* clause wraps the store's message
add_dogs(store, newId, name, image, breed, price, raised) ==
    LET dog == Dog(name, image, breed, price)
        call == [op |-> "insert", raised |-> raised, data |-> dog]
    IN  IF raised
        THEN [raised |-> TRUE, message |-> "Error adding dog: store error",
              dogs |-> store, calls |-> <<call>>]
        ELSE [raised |-> FALSE,
              data |-> <<Row(Insert(store, newId, dog), newId)>>,
              dogs |-> Insert(store, newId, dog), calls |-> <<call>>]

Outcome(resp, store, calls) ==
    [response |-> resp, dogs |-> store, calls |-> calls]

\* the update with every key of the payload
update_fields_unfiltered(json) == json

\* the payload restricted to the fields that may be updated
update_fields(json) == Restrict(json, UpdatableFields)

\* the body of the handler: raised says the store call, if one is made,
\* fails; newId is the id the store assigns to an inserted row
admin_methods(store, req, raised, newId) ==
    IF req.method = "DELETE"
    THEN LET dog_id == IF req.is_json THEN Get(req.json, "id", Null)
                       ELSE Get(req.args, "id", Null)
         IN  IF ~TruthyNum(dog_id)
             THEN Outcome(Json(400, [error |-> "Missing dog id"]), store, <<>>)
             ELSE LET call == [op |-> "delete", raised |-> raised,
                               id |-> dog_id[1]]
                  IN  IF raised
                      THEN Outcome(OnException(StoreError), store, <<call>>)
                      ELSE Outcome(Json(200, [message |-> "Dog deleted",
                                              data |-> RowsOf(store, dog_id[1])]),
                                   Delete(store, dog_id[1]), <<call>>)
    ELSE IF req.method = "POST"
    THEN IF ~req.is_json
         THEN Outcome(Json(400, [error |-> "Request must be JSON"]),
                      store, <<>>)
         ELSE LET data == req.json
                  name == Get(data, "name", Null)
                  image == Get(data, "image", Null)
                  breed == Get(data, "breed", Null)
                  price == Get(data, "price", Null)
              IN  IF ~(/\ TruthyStr(name) /\ TruthyStr(image)
                       /\ TruthyStr(breed) /\ TruthyNum(price))
                  THEN Outcome(Json(400, [error |-> "Missing required fields"]),
                               store, <<>>)
                  ELSE LET result == add_dogs(store, newId, name, image,
                                              breed, price, raised)
                       IN  IF result.raised
                           THEN Outcome(OnException(result.message),
                                        result.dogs, result.calls)
                           ELSE Outcome(Json(200,
                                           [message |-> "Dog added successfully",
                                            data |-> result.data]),
                                        result.dogs, result.calls)
    ELSE IF ~req.is_json
         THEN Outcome(Json(400, [error |-> "Request must be JSON"]),
                      store, <<>>)
         ELSE LET dog_id == Get(req.json, "id", Null)
              IN  IF ~TruthyNum(dog_id)
                  THEN Outcome(Json(400, [error |-> "Missing dog id"]),
                               store, <<>>)
                  ELSE LET update_data == update_fields(req.json)
                           call == [op |-> "update", raised |-> raised,
                                    id |-> dog_id[1], data |-> update_data]
                       IN  IF update_data = EmptyObject
                           THEN Outcome(Json(400,
                                          [error |-> "No valid fields to update"]),
                                        store, <<>>)
                           ELSE IF raised
                           THEN Outcome(OnException(StoreError), store,
                                        <<call>>)
                           ELSE Outcome(
                                  Json(200,
                                    [message |-> "Dog updated",
                                     data |-> RowsOf(Update(store, dog_id[1],
                                                            update_data),
                                                     dog_id[1])]),
                                  Update(store, dog_id[1], update_data),
                                  <<call>>)

\* the handler behind a check of the bearer token
admin_dogs_checked(store, req, raised, newId) ==
    IF req.token # Some(ADMIN_TOKEN)
    THEN Outcome(Json(401, [error |-> "Unauthorized"]), store, <<>>)
    ELSE admin_methods(store, req, raised, newId)

\* the handler of /admin: no check of the caller precedes the methods
admin_dogs(store, req, raised, newId) ==
    admin_methods(store, req, raised, newId)

\* the ids the store may assign to a new row: any id not in use (a full
\* store receives no POST, see ReceiveAdmin)
AssignableIds(store) ==
    LET free == (1..MaxId) \ DOMAIN store
    IN  IF free = {} THEN {MaxId + 1} ELSE free

\* the store holds at most MaxId rows: a POST arrives while there is room
ReceiveAdmin ==
    /\ request = NoRequest
    /\ \E req \in AdminRequests :
          /\ req.method = "POST" => Cardinality(DOMAIN dogs) < MaxId
          /\ request' = req
    /\ UNCHANGED <<dogs, loggedIn, response, storeCalls>>

AdminDogs ==
    /\ request.route = "admin"
    /\ response = NoResponse
    /\ \E raised \in BOOLEAN, newId \in AssignableIds(dogs) :
          LET out == admin_dogs(dogs, request, raised, newId)
          IN  /\ response' = out.response
              /\ dogs' = out.dogs
              /\ storeCalls' = out.calls
    /\ UNCHANGED <<loggedIn, request>>

----------------------------------------------------------------------------
(* Specifications *)

\* the rows the small store can hold at start-up
InitialStores ==
    {NoDogs,
     [i \in {1} |-> Dog(Some("Rex"), Some("rex.png"), Some("Lab"), Some(100))]}

Idle ==
    /\ loggedIn = FALSE
    /\ request = NoRequest
    /\ response = NoResponse
    /\ storeCalls = <<>>

Init == dogs \in InitialStores /\ Idle

BreedPattern == <<Some("Lab"), Some("Lab"), Some("Poodle"), Null>>

\* a store of n rows for the aggregation: the first hi rows cost 200, the
\* next one 100 and the others 0; the last row has no price when nullLast
StatStore(n, hi, nullLast) ==
    [i \in 1..n |->
        Dog(Some("Rex"), Some("rex.png"),
            BreedPattern[((i - 1) % Len(BreedPattern)) + 1],
            IF nullLast /\ i = n THEN Null
            ELSE IF i <= hi THEN Some(200)
            ELSE IF i = hi + 1 THEN Some(100)
            ELSE Some(0))]

InitStats ==
    /\ \E n \in 0..MaxStatDogs, hi \in {0, 1, 4}, nullLast \in BOOLEAN :
          /\ hi <= n
          /\ dogs = StatStore(n, hi, nullLast)
    /\ Idle

NextStats == ReceiveDashboard \/ Dashboard \/ Deliver

PricePattern == <<Some(100), Some(0), Null>>

\* a store of n rows for the pagination, with ids stride apart
PageStore(n, stride) ==
    [id \in {stride * i : i \in 1..n} |->
        Dog(Some("Rex"), Some("rex.png"),
            BreedPattern[(((id \div stride) - 1) % Len(BreedPattern)) + 1],
            PricePattern[(((id \div stride) - 1) % Len(PricePattern)) + 1])]

InitPage ==
    /\ \E n \in 0..MaxPageDogs, stride \in 1..2 : dogs = PageStore(n, stride)
    /\ Idle

NextPage == ReceiveDogs \/ GetDogs \/ Deliver

Next ==
    \/ ReceiveDashboard \/ Dashboard
    \/ ReceiveDogs \/ GetDogs
    \/ ReceiveLogin \/ AdminLogin
    \/ ReceiveAdmin \/ AdminDogs
    \/ Deliver

Spec == Init /\ [][Next]_vars

\* GET /dashboard over stores of up to MaxStatDogs rows
SpecStats == InitStats /\ [][NextStats]_vars

\* GET /dogs over stores of up to MaxPageDogs rows
SpecPage == InitPage /\ [][NextPage]_vars

----------------------------------------------------------------------------
(* Properties of GET /dashboard *)

\* a dashboard request has been answered and its select did not fail
DashboardAnswered ==
    /\ request.route = "dashboard"
    /\ response # NoResponse
    /\ ~storeCalls[1].raised

Statistics == response.body.statistics

RECURSIVE SumOver(_, _)
\* the sum of f over the finite set S
SumOver(f, S) ==
    IF S = {} THEN 0
    ELSE LET x == CHOOSE y \in S : TRUE
         IN  f[x] + SumOver(f, S \ {x})

\* the price of a record in a total that counts a null price as 0
PriceOrZero == [i \in DOMAIN dogs |->
                   IF dogs[i].price = Null THEN 0 ELSE dogs[i].price[1]]

\* C1: whenever the store returns its records, GET /dashboard answers 200
\* and total_inventory_value is the sum of the prices, a null price
\* counting as 0.
C1_TotalCountsNullAsZero ==
    DashboardAnswered =>
        /\ response.status = 200
        /\ Statistics.total_inventory_value = SumOver(PriceOrZero, DOMAIN dogs)

\* the breeds of the store and the number of records of each
BreedsInStore == {dogs[i].breed : i \in DOMAIN dogs}
CountOfBreed(b) == Cardinality({i \in DOMAIN dogs : dogs[i].breed = b})

\* the statistics of a 200 answer over a non-empty store, but average_price
CountsAreRight ==
    /\ Statistics.total_dogs = Cardinality(DOMAIN dogs)
    /\ DOMAIN Statistics.breed_distribution = BreedsInStore
    /\ \A b \in BreedsInStore : Statistics.breed_distribution[b] = CountOfBreed(b)
    /\ SumOver(Statistics.breed_distribution, BreedsInStore)
          = Statistics.total_dogs
    /\ Statistics.unique_breeds = Cardinality(BreedsInStore)
    /\ Statistics.total_inventory_value = SumOver(PriceOrZero, DOMAIN dogs)

NonEmptyAnswered ==
    /\ DashboardAnswered
    /\ response.status = 200
    /\ dogs # NoDogs

RECURSIVE Gcd(_, _)
Gcd(a, b) == IF b = 0 THEN a ELSE Gcd(b, a % b)

RECURSIVE IsPowerOfTwo(_)
IsPowerOfTwo(n) == n = 1 \/ (n % 2 = 0 /\ IsPowerOfTwo(n \div 2))

\* m / n is a binary fraction, so a double holds it exactly
ExactQuotient(m, n) == IsPowerOfTwo(n \div Gcd(m, n))

C3_EmptyStoreStatistics ==
    (DashboardAnswered /\ dogs = NoDogs) =>
        response = Json(200, [dogs |-> <<>>,
                              statistics |->
                                 [total_dogs |-> 0,
                                  unique_breeds |-> 0,
                                  breed_distribution |-> NoBreeds,
                                  total_inventory_value |-> 0,
                                  average_price |-> FloatZero]])

C3_Witness ==
    /\ DashboardAnswered
    /\ dogs = NoDogs
    /\ response.status = 200

----------------------------------------------------------------------------
(* Properties of GET /dogs *)

\* a list request has been answered and its select did not fail
DogsAnswered ==
    /\ request.route = "dogs"
    /\ response # NoResponse
    /\ ~storeCalls[1].raised

\* the page asked for, 1 when the parameter is absent
PageAsked == IF request.args.page = Null THEN 1 ELSE request.args.page[1]

\* record i passes every filter the request supplies
Satisfies(i) ==
    LET args == request.args
        breed == dogs[i].breed
        price == dogs[i].price
    IN  /\ args.breed # {} => (breed # Null /\ breed[1] \in args.breed)
        /\ args.min_price # Null =>
              (price # Null /\ price[1] >= args.min_price[1])
        /\ args.max_price # Null =>
              (price # Null /\ price[1] <= args.max_price[1])

MatchingIds == {i \in DOMAIN dogs : Satisfies(i)}

\* the 0-based position of record i among the matching records by id
Position(i) == Cardinality({j \in MatchingIds : j < i})

\* C4: for page >= 1, GET /dogs answers 200, echoes the page and returns
\* exactly the matching records at positions (page-1)*20 .. (page-1)*20+19
\* in ascending id order: at most 20, fewer on the last page, none past it.
C4_PageWindow ==
    (DogsAnswered /\ PageAsked >= 1) =>
        LET first == (PageAsked - 1) * 20
            inWindow == {i \in MatchingIds : Position(i) \in first..(first + 19)}
            returned == response.body.dogs
        IN  /\ response.status = 200
            /\ response.body.page = PageAsked
            /\ Len(returned) <= 20
            /\ Len(returned) = Cardinality(inWindow)
            /\ \A k \in 1..Len(returned) :
                  \E i \in inWindow :
                     /\ Position(i) = first + k - 1
                     /\ returned[k] = Row(dogs, i)

\* a last page that is neither full nor empty
C4_Witness ==
    /\ DogsAnswered
    /\ PageAsked = 2
    /\ Cardinality(MatchingIds) > 20
    /\ Len(response.body.dogs) \in 1..19

\* C5: the records GET /dogs pages over are exactly those that pass every
\* supplied filter; a breed set matching no record and min_price >
\* max_price give 200 with an empty list.
C5_FiltersSelectExactly ==
    DogsAnswered =>
        LET args == request.args
            returned == response.body.dogs
            selected == {i \in DOMAIN dogs :
                            Matches(Row(dogs, i), storeCalls[1].query)}
        IN  /\ response.status = 200
            /\ selected = MatchingIds
            /\ \A k \in 1..Len(returned) : returned[k]["id"][1] \in MatchingIds
            /\ (PageAsked = 1 /\ Cardinality(MatchingIds) <= 20) =>
                  {returned[k]["id"][1] : k \in 1..Len(returned)} = MatchingIds
            /\ (args.breed # {} /\ \A i \in DOMAIN dogs :
                                      dogs[i].breed = Null
                                      \/ dogs[i].breed[1] \notin args.breed) =>
                  returned = <<>>
            /\ (args.min_price # Null /\ args.max_price # Null
                /\ args.min_price[1] > args.max_price[1]) =>
                  returned = <<>>

\* all three filters supplied, some records pass and some do not
C5_Witness ==
    /\ DogsAnswered
    /\ request.args.breed # {}
    /\ request.args.min_price # Null
    /\ request.args.max_price # Null
    /\ response.body.dogs # <<>>
    /\ MatchingIds # DOMAIN dogs

----------------------------------------------------------------------------
(* Properties of the error handling and of the login *)

\* C6: a failed store call during GET /dashboard, GET /dogs or a /admin
\* mutation ends the request with 500 and an error body, and the call is
\* made once only.
C6_StoreFailureIs500 ==
    response # NoResponse =>
        \A k \in 1..Len(storeCalls) :
            storeCalls[k].raised =>
                /\ response.status = 500
                /\ "error" \in DOMAIN response.body
                /\ Len(storeCalls) = 1

\* an update that the store rejected
C6_Witness ==
    /\ request.route = "admin"
    /\ response.status = 500
    /\ storeCalls # <<>>
    /\ storeCalls[1].op = "update"
    /\ storeCalls[1].raised

----------------------------------------------------------------------------
(* Properties of POST, PUT and DELETE /admin *)

\* C8: POST /admin with a JSON body answers 400 'Missing required fields'
\* without an insert exactly when one of name, image, breed, price is
\* missing; a body with all four, price any non-negative number, is
\* inserted with those values and answered 200.
C8_RejectsExactlyMissingFields ==
    (/\ request.route = "admin" /\ request.method = "POST"
     /\ request.is_json /\ response # NoResponse) =>
        LET json == request.json
            missing == \E k \in UpdatableFields : Get(json, k, Null) = Null
            rejected == /\ response.status = 400
                        /\ response.body.error = "Missing required fields"
                        /\ storeCalls = <<>>
        IN  /\ missing <=> rejected
            /\ (~missing /\ ~storeCalls[1].raised) =>
                  /\ response.status = 200
                  /\ \E i \in DOMAIN dogs :
                        dogs[i] = Dog(json["name"], json["image"],
                                      json["breed"], json["price"])

\* the handler of /admin answers a PUT in this step
PutHandled ==
    /\ request.route = "admin"
    /\ request.method = "PUT"
    /\ response = NoResponse
    /\ response' # NoResponse

\* C9: the update PUT /admin sends holds exactly the payload keys among
\* name, image, breed, price with the payload values and goes to the
\* record of the payload id; other attributes and other records keep their
\* values.  Without an id or without any of the four keys the answer is
\* 400 and the store is not called.
C9_UpdateIsAllowListed ==
    [][PutHandled =>
        LET json == request.json
            id == Get(json, "id", Null)
            keys == DOMAIN json \cap {"name", "image", "breed", "price"}
        IN  /\ storeCalls' # <<>> =>
                LET call == storeCalls'[1]
                IN  /\ Len(storeCalls') = 1
                    /\ call.op = "update"
                    /\ call.id = id[1]
                    /\ DOMAIN call.data = keys
                    /\ \A k \in keys : call.data[k] = json[k]
                    /\ DOMAIN dogs' = DOMAIN dogs
                    /\ \A i \in DOMAIN dogs :
                          dogs'[i] =
                             IF i = id[1] /\ ~call.raised
                             THEN [c \in DOMAIN dogs[i] |->
                                      IF c \in keys THEN json[c]
                                      ELSE dogs[i][c]]
                             ELSE dogs[i]
            /\ (id = Null \/ keys = {}) =>
                  /\ response'.status = 400
                  /\ storeCalls' = <<>>
                  /\ dogs' = dogs
    ]_vars

\* an update of one record of two, sent with a key that is not a field
C9_Witness ==
    /\ request.route = "admin"
    /\ request.method = "PUT"
    /\ response.status = 200
    /\ "color" \in DOMAIN request.json
    /\ storeCalls[1].id \in DOMAIN dogs
    /\ Cardinality(DOMAIN dogs) > 1
    /\ dogs[storeCalls[1].id].price = Some(0)

\* the handler of /admin answers in this step
AdminHandled ==
    /\ request.route = "admin"
    /\ response = NoResponse
    /\ response' # NoResponse

\* C10: the answer of /admin and its effect on the store are those of the
\* same request carrying any other token, and never a refusal for want of
\* a login: the token is not checked.
C10_TokenNeverChecked ==
    [][AdminHandled =>
        /\ response'.status \in {200, 400, 500}
        /\ \A t \in Tokens :
              \E raised \in BOOLEAN, newId \in AssignableIds(dogs) :
                 admin_dogs(dogs, [request EXCEPT !.token = t], raised, newId)
                    = Outcome(response', dogs', storeCalls')
    ]_vars

\* a record inserted by a request without a token, no login having succeeded
C10_Witness ==
    /\ ~loggedIn
    /\ request.route = "admin"
    /\ request.method = "POST"
    /\ request.token = Null
    /\ response.status = 200
    /\ storeCalls[1].op = "insert"

====
